---- MODULE Spec2Model ----
(***************************************************************************)
(* A model of cool_fireworks.py: the Particle physics step and the         *)
(* FireworkShow spawn / step / render operations, plus the driver loop of  *)
(* main().                                                                 *)
(*                                                                         *)
(* Floats are modelled in fixed point: a float f is the integer f * Unit.  *)
(* Sums are exact; a product is rounded to the nearest unit (Mul).  The    *)
(* draws of the shared random source are either nondeterministic (an       *)
(* unseeded source: every outcome of a draw set) or read from the state of *)
(* a seeded generator (rng).                                               *)
(***************************************************************************)
EXTENDS Integers, Sequences, FiniteSets, TLC

VARIABLES
    width, height, gravity, damping, sparks,  \* FireworkShow's parameters
    particles,       \* FireworkShow.particles: the live collection (a list)
    frame_counter,   \* FireworkShow.frame_counter
    particle,        \* a Particle stepped on its own (Particle.step called directly)
    op,              \* the operation that produced this state
    entry,           \* what the last operation found at entry and drew from the random source
    ret,             \* the value the last operation returned
    rng,             \* the state of the shared random source when seeded, else None
    args,            \* the driver's arguments: [seed, frames, width, height]
    run,             \* which run of main() this is (1 or 2), 0 outside main()
    frame,           \* main()'s loop variable
    out,             \* the frames this run of main() has printed
    first_out        \* the frames the first run of main() printed

vars == <<width, height, gravity, damping, sparks, particles, frame_counter,
          particle, op, entry, ret, rng, args, run, frame, out, first_out>>

show_vars == <<width, height, gravity, damping, sparks, particles, frame_counter>>
main_vars == <<rng, args, run, frame, out, first_out>>

\* Python's None; an optional value v that is present is <<v>>.
None == <<>>

----------------------------------------------------------------------------
(* Fixed-point floats *)

\* One float unit: 1.0 is Unit.
Unit == 100

\* The nearest integer to a / b (b > 0), halves rounded up.
RoundDiv(a, b) == (2 * a + b) \div (2 * b)

\* The float product a * b.
Mul(a, b) == RoundDiv(a * b, Unit)

\* int(f): truncation toward zero.
Trunc(f) == IF f >= 0 THEN f \div Unit ELSE -((-f) \div Unit)

\* float(n) of an integer n.
Float(n) == n * Unit

----------------------------------------------------------------------------
(* Program constants *)

PALETTE == <<196, 202, 208, 214, 220, 226, 190, 118, 51, 45, 39, 33, 201, 207>>

DefaultGravity == 12
DefaultDamping == 92
DefaultSparks == 120

LifeMin == 18
LifeMax == 40
SpawnModMin == 18
SpawnModMax == 26
SpeedMin == 60
SpeedMax == 160

\* The glyphs of render(), as code points: "*", U+2022, U+00B7, U+2736.
GLYPHS == <<42, 8226, 183, 10038>>

----------------------------------------------------------------------------
(* Particle *)

Particle(x, y, vx, vy, life, colour) ==
    [x |-> x, y |-> y, vx |-> vx, vy |-> vy, life |-> life, colour |-> colour]

\* Faulty variant of Particle.step: the flag forgets the life counter.
ParticleStepForgetsLife(p, g, d) ==
    IF p.life <= 0
    THEN [p |-> p, alive |-> FALSE]
    ELSE [p |-> Particle(p.x + p.vx, p.y + p.vy, Mul(p.vx, d), Mul(p.vy, d) + g,
                         p.life - 1, p.colour),
          alive |-> (p.y + p.vy >= 0)]

\* Faulty variant of Particle.step: no early return for a dead particle.
ParticleStepMovesDead(p, g, d) ==
    [p |-> Particle(p.x + p.vx, p.y + p.vy, Mul(p.vx, d), Mul(p.vy, d) + g,
                    p.life - 1, p.colour),
     alive |-> (p.life - 1 > 0 /\ p.y + p.vy >= 0)]

\* Faulty variant of Particle.step: the velocity is updated before the
\* position is moved by it.
ParticleStepVelocityFirst(p, g, d) ==
    IF p.life <= 0
    THEN [p |-> p, alive |-> FALSE]
    ELSE LET vx1 == Mul(p.vx, d)
             vy1 == Mul(p.vy, d) + g
         IN  [p |-> Particle(p.x + vx1, p.y + vy1, vx1, vy1, p.life - 1, p.colour),
              alive |-> (p.life - 1 > 0 /\ p.y + vy1 >= 0)]

\* Particle.step: the particle afterwards and the returned flag.
ParticleStep(p, g, d) ==
    IF p.life <= 0
    THEN [p |-> p, alive |-> FALSE]
    ELSE LET x1    == p.x + p.vx
             y1    == p.y + p.vy
             vx1   == Mul(p.vx, d)
             vy1   == Mul(p.vy, d) + g
             life1 == p.life - 1
         IN  [p |-> Particle(x1, y1, vx1, vy1, life1, p.colour),
              alive |-> (life1 > 0 /\ y1 >= 0)]

----------------------------------------------------------------------------
(* The random source *)

\* random.uniform(a, b) = a + (b - a) * random(), u the outcome of random()
\* as a fraction of Unit.
Uniform(a, b, u) == a + Mul(b - a, u)

\* random.randint(a, b) = a + (a draw below b - a + 1), r the outcome of the draw.
RandInt(a, b, r) == a + (r % (b - a + 1))

\* math.cos and math.sin of the angle 2 * pi * t, on the turn fractions t
\* (in units) whose cosine and sine are exact in fixed point.
TrigTable ==
    (0  :> <<100, 0>>)   @@ (10 :> <<80, 60>>)   @@ (15 :> <<60, 80>>) @@
    (25 :> <<0, 100>>)   @@ (35 :> <<-60, 80>>)  @@ (50 :> <<-100, 0>>) @@
    (65 :> <<-60, -80>>) @@ (75 :> <<0, -100>>)  @@ (85 :> <<60, -80>>)
Cos(t) == TrigTable[t][1]
Sin(t) == TrigTable[t][2]

----------------------------------------------------------------------------
(* FireworkShow *)

Show(w, h, g, d, k, ps, fc) ==
    [width |-> w, height |-> h, gravity |-> g, damping |-> d, sparks |-> k,
     particles |-> ps, frame_counter |-> fc]

\* FireworkShow.__init__
NewShow(w, h, g, d, k) == Show(w, h, g, d, k, <<>>, 0)

\* One spark of _create_explosion; sd holds the outcomes of its four draws:
\* angle (turn fraction), speed (outcome of random()), life, colour (index).
Spark(x, y, hue_shift, sd) ==
    LET speed == Uniform(SpeedMin, SpeedMax, sd.speed)
        vx    == Mul(Cos(sd.angle), speed)
        vy    == Mul(Sin(sd.angle), speed)
        colour == PALETTE[((hue_shift + sd.colour) % Len(PALETTE)) + 1]
        life  == RandInt(LifeMin, LifeMax, sd.life)
    IN  Particle(x, y, vx, vy, life, colour)

\* FireworkShow._create_explosion: the particles it yields, in order.
CreateExplosion(self, x, y, radius, hue_shift, sds) ==
    [i \in 1..self.sparks |-> Spark(x, y, hue_shift, sds[i])]

\* Faulty variant of spawn_firework: the explosion replaces the live
\* collection instead of extending it.
SpawnFireworkReplaces(self, d) ==
    LET x == Uniform(Mul(20, Float(self.width)), Mul(80, Float(self.width)), d.x)
        y == Uniform(Mul(20, Float(self.height)), Mul(45, Float(self.height)), d.y)
    IN  CreateExplosion(self, x, y, 0, d.hue_shift, d.sparks)

\* Faulty variant of spawn_firework: the centre is drawn over the whole
\* width of the canvas.
SpawnFireworkAnywhere(self, d) ==
    LET x == Uniform(0, Float(self.width), d.x)
        y == Uniform(Mul(20, Float(self.height)), Mul(45, Float(self.height)), d.y)
    IN  self.particles \o CreateExplosion(self, x, y, 0, d.hue_shift, d.sparks)

\* FireworkShow.spawn_firework: the live collection afterwards.  d holds the
\* outcomes of the draws: radius, x, y (outcomes of random()), hue_shift and
\* the per-spark draws.
SpawnFirework(self, d) ==
    LET radius == Uniform(Float(6), Float(12), d.radius)
        x == Uniform(Mul(20, Float(self.width)), Mul(80, Float(self.width)), d.x)
        y == Uniform(Mul(20, Float(self.height)), Mul(45, Float(self.height)), d.y)
    IN  self.particles \o CreateExplosion(self, x, y, radius, d.hue_shift, d.sparks)

\* Faulty variant of step()'s spawn test: the modulus is always 18.
StepSpawnsFixedModulus(self, n) ==
    \/ self.particles = <<>>
    \/ self.frame_counter % SpawnModMin = 0

\* Whether step() spawns, n the outcome of the draw of random.randint(18, 26).
StepSpawns(self, n) ==
    \/ self.particles = <<>>
    \/ self.frame_counter % RandInt(SpawnModMin, SpawnModMax, n) = 0

\* Faulty variant of step()'s filter: no test of the canvas bounds.
RetainedWithoutBounds(self, r) == r.alive

\* The condition under which step() keeps a stepped particle.
Retained(self, r) ==
    /\ r.alive
    /\ 0 <= r.p.x /\ r.p.x < Float(self.width)
    /\ 0 <= r.p.y /\ r.p.y < Float(self.height)

\* FireworkShow.step: the show afterwards.
ShowStep(self, n, d) ==
    LET spawned == IF StepSpawns(self, n) THEN SpawnFirework(self, d)
                   ELSE self.particles
        stepped == [i \in 1..Len(spawned) |->
                       ParticleStep(spawned[i], self.gravity, self.damping)]
        alive   == SelectSeq(stepped, LAMBDA r : Retained(self, r))
    IN  [self EXCEPT !.particles = [i \in 1..Len(alive) |-> alive[i].p],
                     !.frame_counter = self.frame_counter + 1]

\* Whether render() draws the particle (and so draws a glyph for it).
OnCanvas(self, p) ==
    /\ 0 <= Trunc(p.x) /\ Trunc(p.x) < self.width
    /\ 0 <= Trunc(p.y) /\ Trunc(p.y) < self.height

\* The number of glyph draws render() makes.
GlyphDraws(self) == Len(SelectSeq(self.particles, LAMBDA p : OnCanvas(self, p)))

\* Which of render()'s glyph draws is the one made for particle i.
GlyphIndex(self, i) ==
    Len(SelectSeq(SubSeq(self.particles, 1, i), LAMBDA p : OnCanvas(self, p)))

\* The body of render()'s loop for particle i; grid is [canvas, colour_map]
\* and gl holds the glyph draws in order.
PaintOne(self, grid, i, gl) ==
    LET p  == self.particles[i]
        ix == Trunc(p.x)
        iy == Trunc(p.y)
    IN  IF OnCanvas(self, p)
        THEN [canvas |-> [grid.canvas EXCEPT
                             ![iy + 1][ix + 1] = GLYPHS[gl[GlyphIndex(self, i)] + 1]],
              colour_map |-> [grid.colour_map EXCEPT ![iy + 1][ix + 1] = <<p.colour>>]]
        ELSE grid

\* The loop of render() over particles lo..hi, in order.  The range is
\* split in halves and grid is looked at first, which keeps the evaluation
\* shallow; an empty grid (no canvas) is left as it is.
RECURSIVE Paint(_, _, _, _, _)
Paint(self, grid, lo, hi, gl) ==
    IF DOMAIN grid = {} \/ lo > hi THEN grid
    ELSE IF lo = hi THEN PaintOne(self, grid, lo, gl)
    ELSE LET mid == (lo + hi) \div 2
         IN  Paint(self, Paint(self, grid, lo, mid, gl), mid + 1, hi, gl)

\* [v for _ in range(n)]
RECURSIVE Repeat(_, _)
Repeat(v, n) == IF n = 0 THEN <<>> ELSE Append(Repeat(v, n - 1), v)

\* str(n) of an integer n >= 0, as code points.
RECURSIVE Digits(_)
Digits(n) == IF n < 10 THEN <<48 + n>> ELSE Digits(n \div 10) \o <<48 + (n % 10)>>

\* One cell of _format_canvas: the character, or the character wrapped in
\* ESC[38;5;<colour>m ... ESC[0m.
FormatCell(char, colour) ==
    IF colour = None \/ char = 32
    THEN <<char>>
    ELSE <<27, 91, 51, 56, 59, 53, 59>> \o Digits(colour[1]) \o <<109, char, 27, 91, 48, 109>>

\* "".join of the cells j..n of a row of n cells.
RECURSIVE FormatRow(_, _, _, _)
FormatRow(row, colour_row, j, n) ==
    IF j > n THEN <<>>
    ELSE FormatCell(row[j], colour_row[j]) \o FormatRow(row, colour_row, j + 1, n)

\* Faulty variant of the join: every line is ended by a newline.
RECURSIVE JoinLinesEnded(_, _, _)
JoinLinesEnded(lines, i, n) ==
    IF i > n THEN <<>>
    ELSE lines[i] \o <<10>> \o JoinLinesEnded(lines, i + 1, n)

\* "\n".join of the lines i..n of n lines.
RECURSIVE JoinLines(_, _, _)
JoinLines(lines, i, n) ==
    IF i > n THEN <<>>
    ELSE IF i = n THEN lines[i]
    ELSE lines[i] \o <<10>> \o JoinLines(lines, i + 1, n)

\* FireworkShow._format_canvas
FormatCanvas(canvas, colour_map) ==
    JoinLines([i \in 1..Len(canvas) |->
                  FormatRow(canvas[i], colour_map[i], 1, Len(canvas[i]))],
              1, Len(canvas))

\* Faulty variant of render(): every particle is moved to the corner of its
\* cell.
RenderSnaps(self, gl) ==
    LET blank == [canvas     |-> Repeat(Repeat(32, self.width), self.height),
                  colour_map |-> Repeat(Repeat(None, self.width), self.height)]
        grid  == Paint(self, blank, 1, Len(self.particles), gl)
        snap(p) == [p EXCEPT !.x = Float(Trunc(p.x)), !.y = Float(Trunc(p.y))]
    IN  [self |-> [self EXCEPT !.particles =
                      [i \in 1..Len(self.particles) |-> snap(self.particles[i])]],
         text |-> FormatCanvas(grid.canvas, grid.colour_map)]

\* FireworkShow.render: the show afterwards and the text returned; gl holds
\* the glyph draws in order.
Render(self, gl) ==
    LET blank == [canvas     |-> Repeat(Repeat(32, self.width), self.height),
                  colour_map |-> Repeat(Repeat(None, self.width), self.height)]
        grid  == Paint(self, blank, 1, Len(self.particles), gl)
    IN  [self |-> self, text |-> FormatCanvas(grid.canvas, grid.colour_map)]

----------------------------------------------------------------------------
(* Bounds and draw sets *)

\* step() is not called once frame_counter has reached MaxFrames (WideFrames
\* under the wide draw sets).
MaxFrames == 27
WideFrames == 5
\* spawn_firework() is not called directly when it would make the live
\* collection longer than MaxParticles.
MaxParticles == 2

\* The outcomes an unseeded random source is taken to produce, per draw: of
\* random() as a fraction of Unit, of a draw below n as a number in 0..n-1.
\* Two joint outcomes of a spark's draws: a spark at full speed down and to
\* the right with the longest life, and a spark at the least speed straight
\* up with the shortest life.
Draws ==
    [radius |-> {0}, x |-> {Unit}, y |-> {0}, hue_shift |-> {Len(PALETTE) - 1},
     spark |-> {[angle |-> 10, speed |-> Unit, life |-> LifeMax - LifeMin, colour |-> 1],
                [angle |-> 75, speed |-> 0,    life |-> 0, colour |-> 0]},
     n |-> {0, SpawnModMax - SpawnModMin},
     glyph |-> {Len(GLYPHS) - 1}]

\* The ends of every range, and the angles of TrigTable.
WideDraws ==
    [radius |-> {0}, x |-> {0, Unit}, y |-> {0, Unit},
     hue_shift |-> {0, Len(PALETTE) - 1},
     spark |-> [angle : DOMAIN TrigTable, speed : {0, Unit},
                life : {0, LifeMax - LifeMin}, colour : {0, 1}],
     n |-> {0, SpawnModMax - SpawnModMin},
     glyph |-> 0..(Len(GLYPHS) - 1)]

\* The outcomes of the draws of one spawn_firework() of k sparks.
SpawnDraws(D, k) ==
    [radius : D.radius, x : D.x, y : D.y, hue_shift : D.hue_shift,
     sparks : [1..k -> D.spark]]

\* The constructor arguments tried: (width, height, gravity, damping, sparks).
Configs == {<<6, 10, DefaultGravity, DefaultDamping, 1>>}

----------------------------------------------------------------------------
(* The show under an unseeded random source *)

show == Show(width, height, gravity, damping, sparks, particles, frame_counter)

SetShow(s) ==
    /\ width' = s.width /\ height' = s.height
    /\ gravity' = s.gravity /\ damping' = s.damping /\ sparks' = s.sparks
    /\ particles' = s.particles /\ frame_counter' = s.frame_counter

Init ==
    /\ \E c \in Configs :
          /\ width = c[1] /\ height = c[2] /\ gravity = c[3] /\ damping = c[4]
          /\ sparks = c[5]
    /\ particles = <<>> /\ frame_counter = 0
    /\ particle = None /\ op = "init" /\ entry = None /\ ret = None
    /\ rng = None /\ args = None /\ run = 0 /\ frame = 0
    /\ out = <<>> /\ first_out = <<>>

\* The value of an optional that is present.
Val(o) == IF o = None THEN None ELSE o[1]

\* A call of show.step() whose draws come out as n and d, each <<outcome>>,
\* or None when the draw is not made.
StepCall(n, d) ==
    /\ SetShow(ShowStep(show, Val(n), Val(d)))
    /\ op' = "step"
    /\ entry' = [self |-> show, n |-> n, d |-> d]
    /\ ret' = None
    /\ UNCHANGED <<particle, rng, args, run, frame, out, first_out>>

Step(D, maxf) ==
    /\ frame_counter < maxf
    /\ IF particles = <<>>
       THEN \E d \in SpawnDraws(D, sparks) : StepCall(None, <<d>>)
       ELSE \E n \in D.n :
               IF StepSpawns(show, n)
               THEN \E d \in SpawnDraws(D, sparks) : StepCall(<<n>>, <<d>>)
               ELSE StepCall(<<n>>, None)

\* A direct call of show.spawn_firework().
Spawn(D, maxp) ==
    /\ Len(particles) + sparks <= maxp
    /\ \E d \in SpawnDraws(D, sparks) :
          /\ particles' = SpawnFirework(show, d)
          /\ entry' = [self |-> show, d |-> d]
    /\ op' = "spawn_firework"
    /\ ret' = None
    /\ UNCHANGED <<width, height, gravity, damping, sparks, frame_counter,
                   particle, rng, args, run, frame, out, first_out>>

\* A call of show.render().
RenderCall(D) ==
    /\ \E gl \in [1..GlyphDraws(show) -> D.glyph] :
          LET r == Render(show, gl)
          IN  /\ SetShow(r.self)
              /\ ret' = r.text
              /\ entry' = [self |-> show, gl |-> gl]
    /\ op' = "render"
    /\ UNCHANGED <<particle, rng, args, run, frame, out, first_out>>

Next == Step(Draws, MaxFrames) \/ Spawn(Draws, MaxParticles) \/ RenderCall(Draws)

Spec == Init /\ [][Next]_vars

\* step() and render() only, under the wide draw sets.
NextWide == Step(WideDraws, WideFrames) \/ RenderCall(WideDraws)

SpecWide == Init /\ [][NextWide]_vars

----------------------------------------------------------------------------
(* Particle.step on a particle of its own *)

\* The particles, gravities and dampings tried.
ParticleInputs ==
    [x : {0, 500}, y : {-100, 0, 500}, vx : {-160, 0, 36}, vy : {-160, 0, 48},
     life : {-1, 0, 1, 2, LifeMin}, colour : {PALETTE[1]}]
GravityInputs == {0, DefaultGravity}
DampingInputs == {DefaultDamping, Unit}

InitParticle ==
    /\ particle \in ParticleInputs
    /\ gravity \in GravityInputs /\ damping \in DampingInputs
    /\ width = 0 /\ height = 0 /\ sparks = 0
    /\ particles = <<>> /\ frame_counter = 0
    /\ op = "init" /\ entry = None /\ ret = None
    /\ rng = None /\ args = None /\ run = 0 /\ frame = 0
    /\ out = <<>> /\ first_out = <<>>

\* A call of particle.step(gravity, damping).
ParticleStepCall ==
    /\ LET r == ParticleStep(particle, gravity, damping)
       IN  particle' = r.p /\ ret' = r.alive
    /\ op' = "Particle.step"
    /\ entry' = [particle |-> particle]
    /\ UNCHANGED <<show_vars, main_vars>>

NextParticle == ParticleStepCall

SpecParticle == InitParticle /\ [][NextParticle]_vars

----------------------------------------------------------------------------
(* The scenario FireworkShow(width=10, height=10, sparks=5) *)

\* step() is not called once frame_counter has reached ScenarioFrames.
ScenarioFrames == 1

\* Sparks at full speed along the axes, from the corners of the spawn band.
ScenarioDraws ==
    [radius |-> {0}, x |-> {0, Unit}, y |-> {0, Unit}, hue_shift |-> {0},
     spark |-> [angle : {0, 25, 50, 75}, speed : {Unit},
                life : {0, LifeMax - LifeMin}, colour : {0}],
     n |-> {0, SpawnModMax - SpawnModMin},
     glyph |-> {0}]

InitScenario ==
    /\ width = 10 /\ height = 10 /\ sparks = 5
    /\ gravity = DefaultGravity /\ damping = DefaultDamping
    /\ particles = <<>> /\ frame_counter = 0
    /\ particle = None /\ op = "init" /\ entry = None /\ ret = None
    /\ rng = None /\ args = None /\ run = 0 /\ frame = 0
    /\ out = <<>> /\ first_out = <<>>

NextScenario == Step(ScenarioDraws, ScenarioFrames)

SpecScenario == InitScenario /\ [][NextScenario]_vars

----------------------------------------------------------------------------
(* The seeded random source, and main() *)

\* The generator behind the random module, as a counter-based generator:
\* its state counts the draws made since seeding, every draw advances it
\* once, and the value drawn in a state is RngValue of it.
RngNext(r) == r + 1
RngValue(r) == (75 * r + 74) % 65537

\* random.seed(a): the generator's state afterwards.
Seed(a) == 1000 * (a % 64)

\* The m states the generator goes through in its next m draws.
RngRun(r, m) == [i \in 1..m |-> r + i]

\* The generator's state after the draws ss, made from state r.
RngAfter(r, ss) == IF ss = <<>> THEN r ELSE ss[Len(ss)]

\* The outcome of the draw made in generator state s: of random(), as a
\* fraction of Unit; of a draw below n; of random() for an angle, which the
\* model takes among the turn fractions of TrigTable.
Random01(s) == RngValue(s) % Unit
Below(s, n) == RngValue(s) % n
Turns == <<0, 10, 15, 25, 35, 50, 65, 75, 85>>
RandomTurn(s) == Turns[(RngValue(s) % Len(Turns)) + 1]

\* The draws of one spawn_firework() of k sparks, made in the states ss.
SeededSpawnDraws(ss, k) ==
    [radius |-> Random01(ss[1]), x |-> Random01(ss[2]), y |-> Random01(ss[3]),
     hue_shift |-> Below(ss[4], Len(PALETTE)),
     sparks |-> [i \in 1..k |->
                    [angle  |-> RandomTurn(ss[4 * i + 1]),
                     speed  |-> Random01(ss[4 * i + 2]),
                     life   |-> Below(ss[4 * i + 3], LifeMax - LifeMin + 1),
                     colour |-> Below(ss[4 * i + 4], Len(PALETTE))]]]

\* show.step() drawing from the generator in state r: the show and the
\* generator's state afterwards.  With no live particle the randint of the
\* spawn test is not drawn.
SeededStep(self, r) ==
    LET ns == IF self.particles = <<>> THEN <<>> ELSE RngRun(r, 1)
        n  == IF ns = <<>> THEN None ELSE Below(ns[1], SpawnModMax - SpawnModMin + 1)
        r1 == RngAfter(r, ns)
        ss == IF StepSpawns(self, n) THEN RngRun(r1, 4 + 4 * self.sparks) ELSE <<>>
        d  == IF ss = <<>> THEN None ELSE SeededSpawnDraws(ss, self.sparks)
    IN  [self |-> ShowStep(self, n, d), rng |-> RngAfter(r1, ss)]

\* show.render() drawing from the generator in state r.
SeededRender(self, r) ==
    LET ss == RngRun(r, GlyphDraws(self))
        gl == [i \in 1..Len(ss) |-> Below(ss[i], Len(GLYPHS))]
        t  == Render(self, gl)
    IN  [self |-> t.self, text |-> t.text, rng |-> RngAfter(r, ss)]

\* main() is run with at most MainFrames frames.
MainFrames == 6
\* The seeds tried, and the states an unseeded generator may start in.
Seeds == {None, <<1>>, <<2>>, <<3>>, <<65>>}
Entropy == {Seed(e) : e \in 4..7}
\* The command lines tried.
Args == [seed : Seeds, frames : 1..MainFrames, width : {6}, height : {10}]

InitMain ==
    /\ args \in Args
    /\ run = 0 /\ frame = 0 /\ rng \in Entropy
    /\ out = <<>> /\ first_out = <<>>
    /\ width = 0 /\ height = 0 /\ sparks = 0 /\ gravity = 0 /\ damping = 0
    /\ particles = <<>> /\ frame_counter = 0
    /\ particle = None /\ op = "init" /\ entry = None /\ ret = None

\* Faulty variant of main()'s start: random.seed is never called.
MainStartUnseeded ==
    /\ run < 2 /\ (run = 1 => frame = args.frames)
    /\ run' = run + 1
    /\ \E e \in Entropy : rng' = e
    /\ SetShow(NewShow(args.width, args.height, DefaultGravity, DefaultDamping,
                       DefaultSparks))
    /\ frame' = 0 /\ out' = <<>>
    /\ first_out' = out
    /\ op' = "main" /\ entry' = None /\ ret' = None
    /\ UNCHANGED <<particle, args>>

\* main() up to its loop, in a fresh process: the generator starts in any
\* state and is seeded when --seed is given; the show is constructed.  The
\* second run starts when the first has ended.
MainStart ==
    /\ run < 2 /\ (run = 1 => frame = args.frames)
    /\ run' = run + 1
    /\ \E e \in Entropy : rng' = IF args.seed # None THEN Seed(args.seed[1]) ELSE e
    /\ SetShow(NewShow(args.width, args.height, DefaultGravity, DefaultDamping,
                       DefaultSparks))
    /\ frame' = 0 /\ out' = <<>>
    /\ first_out' = out
    /\ op' = "main" /\ entry' = None /\ ret' = None
    /\ UNCHANGED <<particle, args>>

\* One iteration of main()'s loop: show.step(), show.render(), print.
MainFrame ==
    /\ run > 0 /\ frame < args.frames
    /\ LET s == SeededStep(show, rng)
           t == SeededRender(s.self, s.rng)
       IN  /\ SetShow(t.self)
           /\ rng' = t.rng
           /\ out' = Append(out, t.text)
    /\ frame' = frame + 1
    /\ op' = "main" /\ entry' = None /\ ret' = None
    /\ UNCHANGED <<particle, args, run, first_out>>

NextMain == MainStart \/ MainFrame

SpecMain == InitMain /\ [][NextMain]_vars

----------------------------------------------------------------------------
(* Properties *)

\* The particle lies on the canvas: 0 <= x < width and 0 <= y < height.
InBounds(p) ==
    /\ 0 <= p.x /\ p.x < Float(width)
    /\ 0 <= p.y /\ p.y < Float(height)

\* C1: after any number of step() calls, whatever the draws, every particle
\* in the live collection has 0 <= x < width and 0 <= y < height.
C1_LiveParticlesOnCanvas ==
    \A i \in 1..Len(particles) : InBounds(particles[i])

\* A step() that dropped a particle Particle.step reported alive, because it
\* had left the canvas sideways or through the bottom.
C1_Witness ==
    /\ op = "step"
    /\ \E i \in 1..Len(entry.self.particles) :
          LET r == ParticleStep(entry.self.particles[i], gravity, damping)
          IN  r.alive /\ ~InBounds(r.p)

\* C2: in every state reached by step(), spawn_firework() and render()
\* calls, no particle with life <= 0 is in the live collection.
C2_NoDeadParticleLive ==
    \A i \in 1..Len(particles) : particles[i].life > 0

\* A step() in which a particle still on the canvas used up its life, and
\* was purged.
C2_Witness ==
    /\ op = "step"
    /\ \E i \in 1..Len(entry.self.particles) :
          LET p == entry.self.particles[i]
          IN  p.life = 1 /\ InBounds(ParticleStep(p, gravity, damping).p)

\* C3: Particle.step on a particle with life > 0 decreases life by exactly 1;
\* on a particle with life <= 0 it reports not-alive and leaves x, y, vx, vy,
\* life and colour unchanged.
C3_LifeCountsDownDeadUntouched ==
    op = "Particle.step" =>
        /\ entry.particle.life > 0 => particle.life = entry.particle.life - 1
        /\ entry.particle.life <= 0 => (ret = FALSE /\ particle = entry.particle)

\* Particle.step was called on a dead particle that has a velocity.
C3_Witness ==
    /\ op = "Particle.step"
    /\ entry.particle.life <= 0
    /\ entry.particle.vx # 0 /\ entry.particle.vy # 0

\* C4: spawn_firework() keeps every previously live particle and adds exactly
\* `sparks` new ones, each with life in [18, 40] and a speed whose magnitude
\* sqrt(vx^2 + vy^2) is in [0.6, 1.6].
C4_SpawnAddsSparks ==
    op = "spawn_firework" =>
        LET old == entry.self.particles
        IN  /\ Len(particles) = Len(old) + sparks
            /\ SubSeq(particles, 1, Len(old)) = old
            /\ \A i \in (Len(old) + 1)..Len(particles) :
                  LET p == particles[i]
                  IN  /\ LifeMin <= p.life /\ p.life <= LifeMax
                      /\ SpeedMin * SpeedMin <= p.vx * p.vx + p.vy * p.vy
                      /\ p.vx * p.vx + p.vy * p.vy <= SpeedMax * SpeedMax

\* spawn_firework() was called with a particle already live, and added a
\* spark that moves along neither axis.
C4_Witness ==
    /\ op = "spawn_firework"
    /\ entry.self.particles # <<>>
    /\ particles[Len(particles)].vx # 0 /\ particles[Len(particles)].vy # 0

\* C5: with a fixed seed, two runs of main() with the same frames, size and
\* seed print the same sequence of rendered frames.
C5_SeededRunsAgree ==
    (run = 2 /\ args.seed # None) =>
        /\ Len(out) <= Len(first_out)
        /\ \A i \in 1..Len(out) : out[i] = first_out[i]

\* The second seeded run has printed all its frames, three or more, the
\* last with a coloured cell in it.
C5_Witness ==
    /\ run = 2 /\ args.seed # None
    /\ frame = args.frames /\ frame >= 3
    /\ \E i \in 1..Len(out[frame]) : out[frame][i] = 27

\* C6: a fresh FireworkShow(width=10, height=10, sparks=5) has, after exactly
\* one step() and whatever the draws, 5 live particles, all with
\* 0 <= x < 10, 0 <= y < 10 and life <= 40.
C6_ScenarioFirstStep ==
    (frame_counter = 1 /\ op = "step") =>
        /\ Len(particles) = 5
        /\ \A i \in 1..Len(particles) :
              /\ 0 <= particles[i].x /\ particles[i].x < Float(10)
              /\ 0 <= particles[i].y /\ particles[i].y < Float(10)
              /\ particles[i].life <= 40

\* The first step() spawned at the top right corner of the spawn band, one
\* spark at full speed to the right and one at full speed upwards.
C6_Witness ==
    /\ frame_counter = 1 /\ op = "step"
    /\ \E i, j \in 1..Len(particles) :
          /\ particles[i].x = Float(8) + SpeedMax
          /\ particles[j].y = Float(2) - SpeedMax

\* C7: on a particle with life > 0, Particle.step moves the position by the
\* velocity it had at entry and only then updates the velocity:
\* x' = x + vx, y' = y + vy, vx' = vx * damping, vy' = vy * damping + gravity;
\* it reports alive iff life' > 0 and y' >= 0.  E.g. position (5.0, 5.0),
\* velocity (0, 0), life 1, gravity 0.12, damping 0.92 gives life 0,
\* not-alive, position (5.0, 5.0), vy 0.12.
C7_PositionBeforeVelocity ==
    (op = "Particle.step" /\ entry.particle.life > 0) =>
        LET e == entry.particle
        IN  /\ particle.x = e.x + e.vx
            /\ particle.y = e.y + e.vy
            /\ particle.vx = Mul(e.vx, damping)
            /\ particle.vy = Mul(e.vy, damping) + gravity
            /\ ret = (particle.life > 0 /\ particle.y >= 0)
            /\ (/\ e.x = 500 /\ e.y = 500 /\ e.vx = 0 /\ e.vy = 0 /\ e.life = 1
                /\ gravity = 12 /\ damping = 92)
               => (/\ particle.life = 0 /\ ret = FALSE
                   /\ particle.x = 500 /\ particle.y = 500 /\ particle.vy = 12)

\* Particle.step was called on the particle of the example.
C7_Witness ==
    /\ op = "Particle.step"
    /\ entry.particle.x = 500 /\ entry.particle.y = 500
    /\ entry.particle.vx = 0 /\ entry.particle.vy = 0 /\ entry.particle.life = 1
    /\ gravity = 12 /\ damping = 92

\* The positions of the newlines in a text.
Newlines(text) == {i \in 1..Len(text) : text[i] = 10}

\* Line k of a text (what lies between its newlines k - 1 and k).
TextLine(text, k) ==
    LET nl == Newlines(text)
        at(m) == IF m = 0 THEN 0
                 ELSE IF m > Cardinality(nl) THEN Len(text) + 1
                 ELSE CHOOSE i \in nl : Cardinality({j \in nl : j < i}) = m - 1
    IN  SubSeq(text, at(k - 1) + 1, at(k) - 1)

\* Whether a coloured cell starts at position j of a line: ESC[38;5;<digits>m,
\* one glyph, ESC[0m.  m is the position of the first "m" from j on.
ColouredCellAt(line, j, m) ==
    /\ m + 5 <= Len(line)
    /\ m >= j + 8
    /\ SubSeq(line, j, j + 6) = <<27, 91, 51, 56, 59, 53, 59>>
    /\ \A i \in (j + 7)..(m - 1) : line[i] \in 48..57
    /\ \E g \in 1..Len(GLYPHS) : line[m + 1] = GLYPHS[g]
    /\ SubSeq(line, m + 2, m + 5) = <<27, 91, 48, 109>>

\* The number of cells the line holds from position j on: a space is one
\* cell, a coloured cell is one cell; -1 if the line is made of anything else.
RECURSIVE Cells(_, _)
Cells(line, j) ==
    IF j > Len(line) THEN 0
    ELSE IF line[j] = 32
         THEN LET rest == Cells(line, j + 1)
              IN  IF rest < 0 THEN -1 ELSE 1 + rest
    ELSE LET ms == {i \in j..Len(line) : line[i] = 109}
             m  == IF ms = {} THEN 0 ELSE CHOOSE i \in ms : \A k \in ms : i <= k
         IN  IF ColouredCellAt(line, j, m)
             THEN LET rest == Cells(line, m + 6)
                  IN  IF rest < 0 THEN -1 ELSE 1 + rest
             ELSE -1

\* C8: render() returns exactly `height` lines of exactly `width` cells each,
\* a blank cell being one space and a coloured cell one glyph between a
\* colour escape and a reset; with no live particle every line is `width`
\* spaces.
C8_RenderShape ==
    op = "render" =>
        /\ Cardinality(Newlines(ret)) + 1 = height
        /\ \A k \in 1..height : Cells(TextLine(ret, k), 1) = width
        /\ particles = <<>> =>
              \A k \in 1..height : TextLine(ret, k) = [j \in 1..width |-> 32]

\* render() returned a frame with a coloured cell in it, two or more
\* particles being live.
C8_Witness ==
    /\ op = "render"
    /\ Len(particles) >= 2
    /\ \E k \in 1..height : \E i \in 1..Len(TextLine(ret, k)) : TextLine(ret, k)[i] = 27

\* The particles step() is left with when it advances the collection ps.
Advanced(ps) ==
    LET rs == [i \in 1..Len(ps) |-> ParticleStep(ps[i], gravity, damping)]
        kept == SelectSeq(rs, LAMBDA r : r.alive /\ InBounds(r.p))
    IN  [i \in 1..Len(kept) |-> kept[i].p]

\* C9: step() spawns exactly one firework if the live collection is empty at
\* entry or frame_counter mod n = 0 for the n in [18, 26] drawn in that step,
\* and none otherwise; the spawn comes before the particles are advanced, so
\* the new sparks are advanced in the same step; frame_counter grows by 1.
C9_SpawnPolicy ==
    op = "step" =>
        LET e == entry.self
            n == SpawnModMin + entry.n[1]
            spawns == e.particles = <<>> \/ (entry.n # None /\ e.frame_counter % n = 0)
        IN  /\ frame_counter = e.frame_counter + 1
            /\ e.particles # <<>> =>
                  (entry.n # None /\ SpawnModMin <= n /\ n <= SpawnModMax)
            /\ spawns <=> entry.d # None
            /\ spawns => /\ Len(SpawnFirework(e, entry.d[1])) = Len(e.particles) + sparks
                         /\ particles = Advanced(SpawnFirework(e, entry.d[1]))
            /\ ~spawns => particles = Advanced(e.particles)

\* A step() entered with a live particle and a frame_counter other than 0
\* that spawned: the modulus drawn divides frame_counter.
C9_Witness ==
    /\ op = "step"
    /\ entry.self.particles # <<>>
    /\ entry.self.frame_counter > 0
    /\ entry.d # None
    /\ Len(particles) > Len(entry.self.particles)

\* C10: render() leaves the live collection (membership, order and every
\* particle's fields), frame_counter, width, height, gravity, damping and
\* sparks unchanged.
C10_RenderMutatesNothing ==
    op = "render" => show = entry.self

\* render() was called with two or more live particles, none at a whole
\* number of cells.
C10_Witness ==
    /\ op = "render"
    /\ Len(particles) >= 2
    /\ \A i \in 1..Len(particles) :
          particles[i].x % Unit # 0 /\ particles[i].y % Unit # 0

====
